---- MODULE Spec2Model ----
(***************************************************************************)
(* FitCheck API (src/main.py): a FastAPI service over two MongoDB          *)
(* collections, db["item"] and db["outfit"].  Every request handler is a   *)
(* sequence of store operations; each store operation is one atomic step,  *)
(* and requests of different connections interleave between the steps.     *)
(***************************************************************************)
EXTENDS Integers, Sequences, FiniteSets, TLC

(* ------------------------------ bounds -------------------------------- *)
\* documents ever inserted into db["item"]
MaxItems == 3
\* documents ever inserted into db["outfit"]
MaxOutfits == 2
\* largest reading of the server clock
MaxTime == 1
\* items created in the specifications about outfits
MaxRefs == 2

\* request slots: connections whose requests run concurrently
Procs == 1..2

VARIABLES
    item,      \* db["item"]: _id -> document
    outfit,    \* db["outfit"]: _id -> document
    lastId,    \* last _id the store assigned, per collection
    now,       \* server clock, read by datetime.utcnow()
    pc,        \* per request slot: the handler's position
    frame,     \* per request slot: the handler's arguments and locals
    resp,      \* per request slot: the HTTP response of the finished handler
    raced,     \* history: an Item was deleted since this slot's existence check
    dangling   \* history: outfits inserted with a dangling id, and whether raced

vars == <<item, outfit, lastId, now, pc, frame, resp, raced, dangling>>

(* --------------------------- values ----------------------------------- *)
\* Python None as a stored field value
None == "None"
\* a mapping with no keys: an empty filter, omitted query parameters
NoFields == [k \in {} |-> k]
NoFrame == [op |-> "none"]
NoResp == [status |-> 0]

MaxOid == IF MaxItems > MaxOutfits THEN MaxItems ELSE MaxOutfits

\* str(ObjectId): the lower-case hex form of the store's identifier
str(o) == "0a" \o ToString(o)
\* the same identifier written in upper-case hex, which ObjectId() also accepts
upper(o) == "0A" \o ToString(o)

\* bson.ObjectId.is_valid on a string
is_valid(s) == \E o \in 1..(MaxOid + 1) : s \in {str(o), upper(o)}
\* ObjectId(s) for a valid s
ObjectId(s) == CHOOSE o \in 1..(MaxOid + 1) : s \in {str(o), upper(o)}

\* oid(): 0 stands for the HTTPException(400, "Invalid ID")
oid(id_str) == IF is_valid(id_str) THEN ObjectId(id_str) ELSE 0

\* datetime.isoformat()
isoformat(t) == "T" \o ToString(t)

DateFields == {"date_created", "updated_at", "created_at"}

\* to_str_id on a document: _id becomes the string id, dates become ISO text
to_str_id(doc) ==
    [k \in ((DOMAIN doc) \ {"_id"}) \cup {"id"} |->
        IF k = "id" THEN str(doc["_id"])
        ELSE IF k \in DateFields THEN isoformat(doc[k])
        ELSE doc[k]]

RECURSIVE SortedIds(_)
\* the ids of a set in ascending order: the store's natural order
SortedIds(S) ==
    IF S = {} THEN <<>>
    ELSE LET m == CHOOSE x \in S : \A y \in S : x <= y
         IN <<m>> \o SortedIds(S \ {m})

\* a document matches an equality filter
Matches(doc, filt) == \A k \in DOMAIN filt : k \in DOMAIN doc /\ doc[k] = filt[k]

\* database.get_documents(collection, filter): the matching documents
get_documents(coll, filt) ==
    LET ids == SortedIds({o \in DOMAIN coll : Matches(coll[o], filt)})
    IN [i \in 1..Len(ids) |-> coll[ids[i]]]

\* database.create_document(collection, data): the collection after the insert
create_document(coll, data, o) == (o :> (data @@ [_id |-> o])) @@ coll

\* to_str_id over a list of documents
StrDocs(docs) == [i \in 1..Len(docs) |-> to_str_id(docs[i])]

Range(s) == {s[i] : i \in 1..Len(s)}

(* --------------------------- schemas ---------------------------------- *)
GoodUrl == "https://cdn.example/a.png"
BadUrl == "not a url"

\* pydantic HttpUrl of schemas.Item.image_url
IsHttpUrl(s) == s = GoodUrl

\* ItemCreate: image_url: str and category: str are required, nothing more
ItemCreateValid(payload) ==
    /\ "image_url" \in DOMAIN payload
    /\ "category" \in DOMAIN payload

\* ItemCreate.model_dump(): the payload with the defaults filled in
model_dump(payload) ==
    payload @@ [season |-> "All", color |-> None, brand |-> None,
                last_worn_date |-> None]

\* the required categories of shuffle_outfit, in order
required == <<"Top", "Bottom", "Shoes">>

(* ------------------------- request inputs ----------------------------- *)
ItemPayloads ==
    {[image_url |-> GoodUrl, category |-> c] : c \in {"Top", "Bottom", "Shoes"}}
    \cup {[image_url |-> BadUrl, category |-> "Top"],
          [image_url |-> GoodUrl]}

OnePayload == {[image_url |-> GoodUrl, category |-> "Top"]}

CategoryQueries ==
    {NoFields} \cup {[category |-> c] : c \in {"Top", "top", "Shoes", ""}}

(* ------------------------- handlers: items ---------------------------- *)
\* a finished handler's response is sent before anything else is scheduled
\* (sending touches no shared state)
NoneDone == \A q \in Procs : pc[q] # "done"

\* a new request takes the first free slot (the slots are interchangeable)
Start(p) ==
    /\ NoneDone
    /\ pc[p] = "idle"
    /\ \A q \in Procs : q < p => pc[q] # "idle"

\* the handler in slot p is at `label` and is scheduled
At(p, label) == NoneDone /\ pc[p] = label

Finish(p, f, r) ==
    /\ pc' = [pc EXCEPT ![p] = "done"]
    /\ frame' = [frame EXCEPT ![p] = f]
    /\ resp' = [resp EXCEPT ![p] = r]

Goto(p, label, f) ==
    /\ pc' = [pc EXCEPT ![p] = label]
    /\ frame' = [frame EXCEPT ![p] = f]
    /\ UNCHANGED resp

\* the filter list_items builds: `{"category": category} if category else {}`
list_items_filt(q) ==
    IF "category" \in DOMAIN q /\ q.category # ""
    THEN [category |-> q.category] ELSE NoFields

\* GET /api/items
list_items(p) ==
    /\ Start(p)
    /\ \E q \in CategoryQueries :
         LET items == get_documents(item, list_items_filt(q))
         IN Finish(p, [op |-> "list_items", query |-> q],
                   [status |-> 200, body |-> StrDocs(items)])
    /\ UNCHANGED <<item, outfit, lastId, now, raced, dangling>>

\* POST /api/items: body validation, then create_document("item", ...)
create_item_from(p, payloads, max) ==
    /\ Start(p)
    /\ lastId.item < max
    /\ \E payload \in payloads :
         IF ~ItemCreateValid(payload)
         THEN /\ Finish(p, [op |-> "create_item", payload |-> payload],
                        [status |-> 422, body |-> <<>>])
              /\ UNCHANGED <<item, lastId>>
         ELSE LET o == lastId.item + 1
              IN /\ item' = create_document(item, model_dump(payload), o)
                 /\ lastId' = [lastId EXCEPT !.item = o]
                 /\ Goto(p, "ci_find",
                         [op |-> "create_item", payload |-> payload, item_id |-> str(o)])
    /\ UNCHANGED <<outfit, now, raced, dangling>>

create_item(p) == create_item_from(p, ItemPayloads, MaxItems)

\* POST /api/items with the one payload the outfit specifications send
create_item_one(p) == create_item_from(p, OnePayload, MaxRefs)

\* POST /api/items, for the one item the favorite specifications refer to
create_item_first(p) == create_item_from(p, OnePayload, 1)

\* find_one({"_id": ...}) as a list: empty when no document matches
find_one(coll, o) == IF o \in DOMAIN coll THEN <<coll[o]>> ELSE <<>>

\* POST /api/items, second store operation: find_one and the response
create_item_find(p) ==
    /\ At(p, "ci_find")
    /\ Finish(p, frame[p],
              [status |-> 200, body |-> StrDocs(find_one(item, ObjectId(frame[p].item_id)))])
    /\ UNCHANGED <<item, outfit, lastId, now, raced, dangling>>

\* the draw without its $match stage
sample_any(cat) ==
    IF DOMAIN item = {} THEN {<<>>} ELSE {<<item[o]>> : o \in DOMAIN item}

\* db["item"].aggregate([$match category, $sample 1]): every possible draw
sample(cat) ==
    LET ids == {o \in DOMAIN item : Matches(item[o], [category |-> cat])}
    IN IF ids = {} THEN {<<>>} ELSE {<<item[o]>> : o \in ids}

\* GET /api/shuffle: one iteration of `for cat in required`
shuffle_outfit(p) ==
    /\ Start(p) \/ At(p, "sh_loop")
    /\ LET i == IF pc[p] = "idle" THEN 1 ELSE frame[p].i
           selected == IF pc[p] = "idle" THEN <<>> ELSE frame[p].selected
       IN \E docs \in sample(required[i]) :
            LET sel == IF docs # <<>> THEN Append(selected, to_str_id(docs[1]))
                       ELSE selected
            IN IF i < Len(required)
               THEN Goto(p, "sh_loop", [op |-> "shuffle", i |-> i + 1, selected |-> sel])
               ELSE Finish(p, [op |-> "shuffle", i |-> i + 1, selected |-> sel],
                           IF Len(sel) # 3
                           THEN [status |-> 200, body |-> sel, complete |-> FALSE]
                           ELSE [status |-> 200, body |-> sel, complete |-> TRUE])
    /\ UNCHANGED <<item, outfit, lastId, now, raced, dangling>>

\* the framework sends the response; the slot is free for the next request
respond(p) ==
    /\ pc[p] = "done"
    /\ pc' = [pc EXCEPT ![p] = "idle"]
    /\ frame' = [frame EXCEPT ![p] = NoFrame]
    /\ resp' = [resp EXCEPT ![p] = NoResp]
    /\ raced' = [raced EXCEPT ![p] = FALSE]
    /\ UNCHANGED <<item, outfit, lastId, now, dangling>>

(* ------------------------- handlers: outfits -------------------------- *)
\* strings a client may send as an item id: the ids of items and a string
\* that is no ObjectId
ItemIdStrs == {str(o) : o \in 1..MaxRefs} \cup {"zz"}

\* strings a client may send as an outfit id
OutfitIdStrs == {str(o) : o \in 1..MaxOutfits} \cup {"zz"}

\* the items lists a client sends: empty, one id, or two ids (in either
\* order, the same id twice included)
ItemLists ==
    {<<>>} \cup {<<x>> : x \in ItemIdStrs} \cup {<<x, y>> : x, y \in ItemIdStrs}

\* OutfitCreate bodies: is_favorite may be omitted
OutfitPayloads ==
    {[items |-> s] : s \in ItemLists}
    \cup {[items |-> s, is_favorite |-> TRUE] : s \in ItemLists}

\* two of them: one item, is_favorite omitted; no items, is_favorite set
FewPayloads == {[items |-> <<str(1)>>], [items |-> <<>>, is_favorite |-> TRUE]}

\* OutfitCreate.is_favorite: bool = False
is_favorite(payload) ==
    IF "is_favorite" \in DOMAIN payload THEN payload.is_favorite ELSE FALSE

\* ids = [oid(i) for i in payload.items]
oids(items) == [i \in 1..Len(items) |-> oid(items[i])]

\* db["item"].count_documents({"_id": {"$in": ids}})
count_documents(ids) == Cardinality({o \in DOMAIN item : o \in Range(ids)})

\* the check with the comparison turned around
not_found_more(count, ids) == count > Len(ids)

\* the check rejecting only when no item at all matches
not_found_none(count, ids) == count = 0 /\ Len(ids) > 0

\* the existence check of create_outfit: `count != len(ids)` rejects
not_found(count, ids) == count # Len(ids)

\* requests that passed the existence check and have not inserted yet
Inserting == {q \in Procs : pc[q] = "co_insert"}

\* POST /api/outfits: parse the ids, count the matching items, compare
create_outfit_from(p, payloads) ==
    /\ Start(p)
    /\ \E payload \in payloads :
         LET ids == oids(payload.items)
             f == [op |-> "create_outfit", payload |-> payload]
         IN IF 0 \in Range(ids)
            THEN Finish(p, f, [status |-> 400, detail |-> "Invalid ID"])
            ELSE IF not_found(count_documents(ids), ids)
            THEN Finish(p, f, [status |-> 400, detail |-> "One or more items not found"])
            ELSE /\ lastId.outfit + Cardinality(Inserting) < MaxOutfits
                 /\ Goto(p, "co_insert", f)
    /\ raced' = [raced EXCEPT ![p] = FALSE]
    /\ UNCHANGED <<item, outfit, lastId, now, dangling>>

create_outfit(p) == create_outfit_from(p, OutfitPayloads)

\* POST /api/outfits with the bodies the favorite specifications send
create_outfit_few(p) == create_outfit_from(p, FewPayloads)

\* the document create_outfit hands to create_document
outfit_doc(payload, t) ==
    [items |-> payload.items, date_created |-> t, is_favorite |-> is_favorite(payload)]

\* POST /api/outfits, second store operation: create_document("outfit", ...)
create_outfit_insert(p) ==
    /\ At(p, "co_insert")
    /\ LET o == lastId.outfit + 1
           payload == frame[p].payload
       IN /\ outfit' = create_document(outfit, outfit_doc(payload, now), o)
          /\ lastId' = [lastId EXCEPT !.outfit = o]
          /\ dangling' = IF \E i \in Range(oids(payload.items)) : i \notin DOMAIN item
                         THEN dangling \cup {[outfit |-> o, raced |-> raced[p]]}
                         ELSE dangling
          /\ Goto(p, "co_find", [frame[p] EXCEPT !.op = "create_outfit"] @@ [outfit_id |-> str(o)])
    /\ UNCHANGED <<item, now, raced>>

\* POST /api/outfits, third store operation: find_one and the response
create_outfit_find(p) ==
    /\ At(p, "co_find")
    /\ Finish(p, frame[p],
              [status |-> 200, body |-> StrDocs(find_one(outfit, ObjectId(frame[p].outfit_id)))])
    /\ UNCHANGED <<item, outfit, lastId, now, raced, dangling>>

\* the update flipping the stored flag instead of setting the given value
set_favorite_flip(doc, v, t) == [is_favorite |-> ~doc.is_favorite, updated_at |-> t] @@ doc

\* the $set of toggle_favorite applied to a document
set_favorite(doc, v, t) == [is_favorite |-> v, updated_at |-> t] @@ doc

\* PATCH /api/outfits/{id}/favorite: update_one, then the matched_count test
toggle_favorite(p) ==
    /\ Start(p)
    /\ \E outfit_id \in OutfitIdStrs, v \in BOOLEAN :
         LET o == oid(outfit_id)
             f == [op |-> "toggle_favorite", outfit_id |-> outfit_id, is_favorite |-> v]
         IN IF o = 0
            THEN /\ Finish(p, f, [status |-> 400, detail |-> "Invalid ID"])
                 /\ UNCHANGED outfit
            ELSE IF o \notin DOMAIN outfit
            THEN /\ Finish(p, f, [status |-> 404, detail |-> "Outfit not found"])
                 /\ UNCHANGED outfit
            ELSE /\ outfit' = [outfit EXCEPT ![o] = set_favorite(@, v, now)]
                 /\ Goto(p, "tf_find", f)
    /\ UNCHANGED <<item, lastId, now, raced, dangling>>

\* PATCH /api/outfits/{id}/favorite, second store operation: find_one
toggle_favorite_find(p) ==
    /\ At(p, "tf_find")
    /\ Finish(p, frame[p],
              [status |-> 200, body |-> StrDocs(find_one(outfit, oid(frame[p].outfit_id)))])
    /\ UNCHANGED <<item, outfit, lastId, now, raced, dangling>>

FavoriteQueries == {NoFields} \cup {[favorite |-> b] : b \in BOOLEAN}

\* the filter list_outfits builds
list_outfits_filt(q) ==
    IF "favorite" \in DOMAIN q THEN [is_favorite |-> q.favorite] ELSE NoFields

\* the field list_outfits sorts by
sort_field == "created_at"

\* the value a sort compares: a missing field sorts below every date
sort_key(doc, field) == IF field \in DOMAIN doc THEN doc[field] ELSE -1

\* cursor.sort(field, -1): every order of the documents that descends by the
\* field; the order among equal keys is the store's to choose
sort_desc(ids, field) ==
    {s \in [1..Cardinality(ids) -> ids] :
        /\ \A i, j \in DOMAIN s : i # j => s[i] # s[j]
        /\ \A i, j \in DOMAIN s :
             i < j => sort_key(outfit[s[i]], field) >= sort_key(outfit[s[j]], field)}

\* GET /api/outfits
list_outfits(p) ==
    /\ Start(p)
    /\ \E q \in FavoriteQueries :
         LET ids == {o \in DOMAIN outfit : Matches(outfit[o], list_outfits_filt(q))}
         IN \E s \in sort_desc(ids, sort_field) :
              Finish(p, [op |-> "list_outfits", query |-> q],
                     [status |-> 200, body |-> [i \in 1..Len(s) |-> to_str_id(outfit[s[i]])]])
    /\ UNCHANGED <<item, outfit, lastId, now, raced, dangling>>

\* the server clock advances
Tick ==
    /\ NoneDone
    /\ now < MaxTime
    /\ now' = now + 1
    /\ UNCHANGED <<item, outfit, lastId, pc, frame, resp, raced, dangling>>

\* external administrative deletion of an Item
delete_item ==
    /\ NoneDone
    /\ \E o \in DOMAIN item :
         item' = [x \in (DOMAIN item) \ {o} |-> item[x]]
    /\ raced' = [p \in Procs |-> raced[p] \/ pc[p] = "co_insert"]
    /\ UNCHANGED <<outfit, lastId, now, pc, frame, resp, dangling>>

(* --------------------------- specifications --------------------------- *)
Init ==
    /\ item = NoFields
    /\ outfit = NoFields
    /\ lastId = [item |-> 0, outfit |-> 0]
    /\ now = 0
    /\ pc = [p \in Procs |-> "idle"]
    /\ frame = [p \in Procs |-> NoFrame]
    /\ resp = [p \in Procs |-> NoResp]
    /\ raced = [p \in Procs |-> FALSE]
    /\ dangling = {}

NextItems ==
    \E p \in Procs :
        \/ create_item(p)
        \/ create_item_find(p)
        \/ list_items(p)
        \/ shuffle_outfit(p)
        \/ respond(p)

SpecItems == Init /\ [][NextItems]_vars

NextCreate ==
    \/ \E p \in Procs :
        \/ create_item_one(p)
        \/ create_item_find(p)
        \/ create_outfit(p)
        \/ create_outfit_insert(p)
        \/ create_outfit_find(p)
        \/ respond(p)

SpecCreate == Init /\ [][NextCreate]_vars

NextRace ==
    \/ \E p \in {1} :
        \/ create_item_one(p)
        \/ create_item_find(p)
        \/ create_outfit(p)
        \/ create_outfit_insert(p)
        \/ create_outfit_find(p)
        \/ respond(p)
    \/ delete_item

SpecRace == Init /\ [][NextRace]_vars

NextToggle ==
    \/ \E p \in Procs :
        \/ create_item_first(p)
        \/ create_item_find(p)
        \/ create_outfit_few(p)
        \/ create_outfit_insert(p)
        \/ create_outfit_find(p)
        \/ toggle_favorite(p)
        \/ toggle_favorite_find(p)
        \/ respond(p)
    \/ Tick

SpecToggle == Init /\ [][NextToggle]_vars

NextFav ==
    \/ \E p \in Procs :
        \/ create_item_first(p)
        \/ create_item_find(p)
        \/ create_outfit_few(p)
        \/ create_outfit_insert(p)
        \/ create_outfit_find(p)
        \/ toggle_favorite(p)
        \/ toggle_favorite_find(p)
        \/ list_outfits(p)
        \/ respond(p)
    \/ Tick

SpecFav == Init /\ [][NextFav]_vars
(* ------------------------------ claims -------------------------------- *)
\* slot p takes the first step of handler op in this step
Starts(p, op) == pc[p] = "idle" /\ frame'[p].op = op

\* every id of the list parses and names a document of db["item"]
AllExist(items) == \A i \in 1..Len(items) : is_valid(items[i]) /\ oid(items[i]) \in DOMAIN item

\* some id of the list parses and names no document of db["item"]
SomeMissing(items) == \E i \in 1..Len(items) : is_valid(items[i]) /\ oid(items[i]) \notin DOMAIN item

\* the position of a category in `required` (0: not a required category)
CatIndex(c) == IF \E k \in 1..Len(required) : required[k] = c
               THEN CHOOSE k \in 1..Len(required) : required[k] = c ELSE 0

\* C1: createOutfit accepts every payload whose ids all parse and reference
\* existing Items, duplicates included, and then persists exactly one new
\* Outfit with the items list verbatim and the payload's isFavorite (false
\* when omitted); it rejects only when fewer Items match than distinct ids
\* were supplied.
C1_AcceptsAllExisting ==
    [][\A p \in Procs :
        /\ Starts(p, "create_outfit") =>
             LET items == frame'[p].payload.items
             IN /\ AllExist(items) => pc'[p] = "co_insert"
                /\ (pc'[p] = "done" /\ (\A i \in 1..Len(items) : is_valid(items[i])))
                     => count_documents(oids(items)) < Cardinality(Range(oids(items)))
        /\ pc[p] = "co_insert" /\ pc'[p] = "co_find" =>
             LET o == oid(frame'[p].outfit_id)
             IN /\ DOMAIN outfit' = DOMAIN outfit \cup {o}
                /\ o \notin DOMAIN outfit
                /\ outfit'[o].items = frame[p].payload.items
                /\ outfit'[o].is_favorite = is_favorite(frame[p].payload)
    ]_vars

\* C2, as claimed: an items list holding at least one well-formed id that is
\* not in the Item collection fails with 400 "One or more items not found",
\* and both collections are unchanged.
C2_AsClaimed ==
    [][\A p \in Procs :
        Starts(p, "create_outfit") /\ SomeMissing(frame'[p].payload.items) =>
            /\ pc'[p] = "done"
            /\ resp'[p].status = 400
            /\ resp'[p].detail = "One or more items not found"
            /\ UNCHANGED <<item, outfit>>
    ]_vars

\* C2, amended: such a list always fails with status 400 and leaves both
\* collections unchanged; the error is "One or more items not found" when
\* every id of the list is well-formed, and "Invalid ID" when the list also
\* holds a malformed id.
C2_MissingItemRejected ==
    [][\A p \in Procs :
        Starts(p, "create_outfit") /\ SomeMissing(frame'[p].payload.items) =>
            LET items == frame'[p].payload.items
            IN /\ pc'[p] = "done"
               /\ resp'[p].status = 400
               /\ resp'[p].detail =
                    IF \A i \in 1..Len(items) : is_valid(items[i])
                    THEN "One or more items not found" ELSE "Invalid ID"
               /\ UNCHANGED <<item, outfit>>
    ]_vars

\* a request naming one existing and one missing item was rejected as not
\* found while the Outfit collection is not empty
C2_Witness ==
    \E p \in Procs :
        /\ pc[p] = "done"
        /\ frame[p].op = "create_outfit"
        /\ resp[p].status = 400
        /\ resp[p].detail = "One or more items not found"
        /\ SomeMissing(frame[p].payload.items)
        /\ \E i \in 1..Len(frame[p].payload.items) :
             oid(frame[p].payload.items[i]) \in DOMAIN item
        /\ DOMAIN outfit # {}

\* C8: with no Item ever deleted, every id in the items list of every
\* persisted Outfit references an existing Item.
C8_ItemsExist == \A o \in DOMAIN outfit : AllExist(outfit[o].items)

\* two Outfits are persisted, one of them with two items
C8_Witness ==
    /\ Cardinality(DOMAIN outfit) >= 2
    /\ \E o \in DOMAIN outfit : Len(outfit[o].items) = 2

\* C9: with Items deleted concurrently, an Outfit is persisted with an id that
\* references no Item only when a deletion fell between the request's
\* existence check and its insert; a request that passed the check and saw
\* no deletion since still has all its items.
C9_DanglingOnlyWhenRaced ==
    /\ \A d \in dangling : d.raced
    /\ \A p \in Procs :
         pc[p] = "co_insert" /\ ~raced[p] => AllExist(frame[p].payload.items)

\* the race happened: an Outfit was persisted holding an id that referenced
\* no Item at the moment of the insert
C9_Witness == \E d \in dangling : d.raced /\ d.outfit \in DOMAIN outfit

\* C3: toggleFavorite on a well-formed id matching no Outfit answers 404 and
\* changes no Outfit; on a matching id it sets that outfit's isFavorite to
\* the given value and its updatedAt to the server time, which is at least
\* the outfit's dateCreated, and leaves its items, its dateCreated and every
\* other Outfit as they were.
C3_ToggleFavorite ==
    [][\A p \in Procs :
        Starts(p, "toggle_favorite") /\ is_valid(frame'[p].outfit_id) =>
            LET o == oid(frame'[p].outfit_id)
            IN IF o \notin DOMAIN outfit
               THEN /\ pc'[p] = "done"
                    /\ resp'[p].status = 404
                    /\ outfit' = outfit
               ELSE /\ DOMAIN outfit' = DOMAIN outfit
                    /\ outfit'[o].is_favorite = frame'[p].is_favorite
                    /\ outfit'[o].updated_at = now
                    /\ outfit'[o].updated_at >= outfit[o].date_created
                    /\ outfit'[o].items = outfit[o].items
                    /\ outfit'[o].date_created = outfit[o].date_created
                    /\ \A x \in DOMAIN outfit : x # o => outfit'[x] = outfit[x]
    ]_vars

\* a toggle was answered while two Outfits exist, on an outfit with an item,
\* at a server time later than its creation
C3_Witness ==
    \E p \in Procs :
        /\ pc[p] = "done"
        /\ frame[p].op = "toggle_favorite"
        /\ resp[p].status = 200
        /\ Cardinality(DOMAIN outfit) >= 2
        /\ LET o == oid(frame[p].outfit_id)
           IN /\ outfit[o].items # <<>>
              /\ outfit[o].updated_at > outfit[o].date_created

\* C10: a successful toggleFavorite(outfitId, v) returns a record whose
\* isFavorite equals v, whatever other toggleFavorite requests run
\* concurrently.
C10_ReturnsOwnValue ==
    \A p \in Procs :
        pc[p] = "done" /\ frame[p].op = "toggle_favorite" /\ resp[p].status = 200 =>
            /\ Len(resp[p].body) = 1
            /\ resp[p].body[1].is_favorite = frame[p].is_favorite

\* C5: listOutfits(favorite) returns exactly the Outfits whose isFavorite
\* equals favorite (all of them when favorite is not given), newest first by
\* the dateCreated createOutfit stored.
C5_NewestFirst ==
    [][\A p \in Procs :
        Starts(p, "list_outfits") =>
            LET q == frame'[p].query
                body == resp'[p].body
                want == {o \in DOMAIN outfit :
                            "favorite" \in DOMAIN q => outfit[o].is_favorite = q.favorite}
                created(i) == outfit[oid(body[i].id)].date_created
            IN /\ {body[i] : i \in 1..Len(body)} = {to_str_id(outfit[o]) : o \in want}
               /\ Len(body) = Cardinality(want)
               /\ \A i, j \in 1..Len(body) :
                    i < j /\ created(i) # created(j) => created(i) > created(j)
    ]_vars

\* C6: listItems(C) returns exactly the items whose category equals C, for
\* every string C, the empty string included; listItems() returns all items.
C6_ExactCategory ==
    [][\A p \in Procs :
        Starts(p, "list_items") =>
            LET q == frame'[p].query
                body == resp'[p].body
                want == {o \in DOMAIN item :
                            "category" \in DOMAIN q => item[o].category = q.category}
            IN /\ {body[i] : i \in 1..Len(body)} = {to_str_id(item[o]) : o \in want}
               /\ Len(body) = Cardinality(want)
    ]_vars

\* C7: createItem answers a client error and persists nothing when imageUrl
\* is no valid URL or category is missing; an Item is added only for payloads
\* passing both checks.
C7_CreateItemValidates ==
    [][\A p \in Procs :
        Starts(p, "create_item") =>
            LET payload == frame'[p].payload
                valid == /\ "category" \in DOMAIN payload
                         /\ "image_url" \in DOMAIN payload
                         /\ IsHttpUrl(payload.image_url)
            IN /\ ~valid => /\ item' = item
                            /\ pc'[p] = "done"
                            /\ resp'[p].status \in 400..499
               /\ item' # item => valid
    ]_vars

\* C4: shuffle draws, in the order Top, Bottom, Shoes, one current member of
\* each category that has an item and nothing for an empty category, never
\* changes a collection, and answers complete exactly when three items were
\* drawn.
C4_Shuffle ==
    [][\A p \in Procs :
        LET i == IF pc[p] = "idle" THEN 1 ELSE frame[p].i
            sel == IF pc[p] = "idle" THEN <<>> ELSE frame[p].selected
        IN pc[p] \in {"idle", "sh_loop"} /\ frame'[p].op = "shuffle" /\ frame'[p].i = i + 1 =>
            LET members == {o \in DOMAIN item : item[o].category = required[i]}
                sel2 == frame'[p].selected
            IN /\ UNCHANGED <<item, outfit>>
               /\ members = {} => sel2 = sel
               /\ members # {} => \E o \in members : sel2 = Append(sel, to_str_id(item[o]))
               /\ \A k \in 1..Len(sel2) : CatIndex(sel2[k].category) \in 1..i
               /\ \A k, l \in 1..Len(sel2) :
                    k < l => CatIndex(sel2[k].category) < CatIndex(sel2[l].category)
               /\ i = Len(required) =>
                    /\ pc'[p] = "done"
                    /\ resp'[p].body = sel2
                    /\ resp'[p].complete = (Len(sel2) = 3)
               /\ i < Len(required) => pc'[p] = "sh_loop"
    ]_vars

\* a shuffle answered a complete outfit: Top, Bottom, Shoes
C4_Witness ==
    \E p \in Procs :
        /\ pc[p] = "done"
        /\ frame[p].op = "shuffle"
        /\ resp[p].complete
        /\ Len(resp[p].body) = 3
        /\ \A k \in 1..3 : resp[p].body[k].category = required[k]
====
